---- MODULE Spec2Model ----
(***************************************************************************)
(* Model of src/src/nodes/node.ts: N nodes running the round-based binary  *)
(* consensus protocol of node(), exchanging proposal and vote messages     *)
(* over HTTP.  One action per handler or per stretch of                    *)
(* runConsensusProtocol between two awaits.                                *)
(***************************************************************************)
EXTENDS Integers, FiniteSets, Sequences, Bags, TLC

\* ------------------------------------------------------------------ bounds
MaxN == 2
MaxRound == 2
MaxStarts == 3

\* ------------------------------------------------------ program constants
ReportedRoundFloor == 11

VARIABLES
    N,              \* number of nodes (parameter N of node())
    isFaulty,       \* isFaulty[i]: parameter isFaulty of node i
    initialValue,   \* initialValue[i]: parameter initialValue of node i
    ready,          \* what nodesAreReady() returns
    nodeState,      \* nodeState[i]: the record {killed, x, decided, k} of node i
    messageLog,     \* messageLog[i]: {proposals, votes}, round -> value -> count
    tasks,          \* tasks[i]: the bag of pending invocations of runConsensusProtocol
    starts          \* starts[i]: number of rounds GET /start has scheduled on node i

vars == <<N, isFaulty, initialValue, ready, nodeState, messageLog, tasks, starts>>

\* A nullable field: null is the empty tuple, a value v is <<v>>.
Null == <<>>
Some(v) == <<v>>
Get(o) == o[1]

Nodes == 0 .. (N - 1)
Values == {0, 1}

\* F is the number of faulty nodes of the run.
F == Cardinality({i \in Nodes : isFaulty[i]})

\* Math.floor(a / 2) for a >= 0
Floor2(a) == a \div 2

faultToleranceThreshold == Floor2(N - 1)
isExceedingFaultLimit == F > faultToleranceThreshold

\* value.toString(), the key of a tally bucket
toString(v) == IF v = 0 THEN "0" ELSE "1"

\* the object { "0": 0, "1": 0, "?": 0 }
EmptyTally == [b \in {"0", "1", "?"} |-> 0]

\* An invocation of runConsensusProtocol: where it stands (pc), its locals
\* currentRound and proposedValue / consensusValue (value), and the peers
\* whose fetch of the broadcast under way has not been answered yet (pend).
Scheduled == [pc |-> "scheduled", currentRound |-> 0, value |-> 0, pend |-> {}]

RECURSIVE SumOver(_, _)
SumOver(f, S) == IF S = {} THEN 0
                 ELSE LET e == CHOOSE e \in S : TRUE IN f[e] + SumOver(f, S \ {e})

TotalStarts == SumOver(starts, Nodes)

TasksOf(i) == BagToSet(tasks[i])
Replace(i, r, r2) == [tasks EXCEPT ![i] = (@ (-) SetToBag({r})) (+) SetToBag({r2})]
Remove(i, r) == [tasks EXCEPT ![i] = @ (-) SetToBag({r})]

\* initializeRoundTracking without its tests for an entry already there
initializeRoundTrackingAnew(log, round) ==
    [proposals |-> [r \in DOMAIN log.proposals \cup {round} |->
                        IF r = round THEN EmptyTally ELSE log.proposals[r]],
     votes     |-> [r \in DOMAIN log.votes \cup {round} |->
                        IF r = round THEN EmptyTally ELSE log.votes[r]]]

initializeRoundTracking(log, round) ==
    [proposals |-> IF round \in DOMAIN log.proposals
                   THEN log.proposals
                   ELSE [r \in DOMAIN log.proposals \cup {round} |->
                            IF r = round THEN EmptyTally ELSE log.proposals[r]],
     votes     |-> IF round \in DOMAIN log.votes
                   THEN log.votes
                   ELSE [r \in DOMAIN log.votes \cup {round} |->
                            IF r = round THEN EmptyTally ELSE log.votes[r]]]

\* determineConsensusValue giving 0 on a tie
determineConsensusValueTieZero(log, round) ==
    LET proposals == log.proposals[round]
    IN  IF proposals["0"] >= proposals["1"] THEN 0 ELSE 1

determineConsensusValue(log, round) ==
    LET proposals == log.proposals[round]
    IN  IF proposals["0"] > proposals["1"] THEN 0
        ELSE IF proposals["1"] > proposals["0"] THEN 1
        ELSE round % 2

\* checkFinalDecision without its test of the round number
checkFinalDecisionAnyRound(log, round) ==
    LET votes == log.votes[round]
    IN  votes["0"] >= Floor2(N) \/ votes["1"] >= Floor2(N)

checkFinalDecision(log, round) ==
    LET votes == log.votes[round]
    IN  (votes["0"] >= Floor2(N) \/ votes["1"] >= Floor2(N)) /\ round >= 2

\* broadcastMessage without its test of killed
broadcastMessageUnlessFaulty(i, phase) ==
    IF isFaulty[i]
    THEN [pc |-> phase, pend |-> {}]
    ELSE IF ~ready
    THEN [pc |-> IF phase = "proposal" THEN "propGate" ELSE "voteGate", pend |-> {}]
    ELSE [pc |-> phase, pend |-> Nodes \ {i}]

\* broadcastMessage without its wait on nodesAreReady()
broadcastMessageUngated(i, phase) ==
    IF nodeState[i].killed \/ isFaulty[i]
    THEN [pc |-> phase, pend |-> {}]
    ELSE [pc |-> phase, pend |-> Nodes \ {i}]

\* broadcastMessage up to its first await: what the calling task is left
\* waiting for.  phase is "proposal" or "vote".
broadcastMessage(i, phase) ==
    IF nodeState[i].killed \/ isFaulty[i]
    THEN [pc |-> phase, pend |-> {}]
    ELSE IF ~ready
    THEN [pc |-> IF phase = "proposal" THEN "propGate" ELSE "voteGate", pend |-> {}]
    ELSE [pc |-> phase, pend |-> Nodes \ {i}]

\* getState without the branch for an exceeded fault limit
getStateUnclamped(i) ==
    IF isFaulty[i]
    THEN [killed |-> nodeState[i].killed, x |-> Null, decided |-> Null, k |-> Null]
    ELSE IF N = 1
    THEN [killed |-> nodeState[i].killed, x |-> Some(initialValue[i]),
          decided |-> Some(TRUE), k |-> Some(1)]
    ELSE nodeState[i]

\* getState without the branch for a faulty node
getStateOfLiveNode(i) ==
    IF N = 1
    THEN [killed |-> nodeState[i].killed, x |-> Some(initialValue[i]),
          decided |-> Some(TRUE), k |-> Some(1)]
    ELSE IF isExceedingFaultLimit
    THEN [killed |-> nodeState[i].killed, x |-> nodeState[i].x, decided |-> Some(FALSE),
          k |-> Some(LET kk == IF nodeState[i].k = Null THEN 0 ELSE Get(nodeState[i].k)
                     IN  IF kk > ReportedRoundFloor THEN kk ELSE ReportedRoundFloor)]
    ELSE nodeState[i]

\* The JSON body getState answers with.
getState(i) ==
    IF isFaulty[i]
    THEN [killed |-> nodeState[i].killed, x |-> Null, decided |-> Null, k |-> Null]
    ELSE IF N = 1
    THEN [killed |-> nodeState[i].killed, x |-> Some(initialValue[i]),
          decided |-> Some(TRUE), k |-> Some(1)]
    ELSE IF isExceedingFaultLimit
    THEN [killed |-> nodeState[i].killed, x |-> nodeState[i].x, decided |-> Some(FALSE),
          k |-> Some(LET kk == IF nodeState[i].k = Null THEN 0 ELSE Get(nodeState[i].k)
                     IN  IF kk > ReportedRoundFloor THEN kk ELSE ReportedRoundFloor)]
    ELSE nodeState[i]

\* ------------------------------------------------------------------- Init
Init ==
    /\ N \in 1 .. MaxN
    /\ isFaulty \in [0 .. (N - 1) -> BOOLEAN]
    /\ initialValue \in [0 .. (N - 1) -> Values]
    /\ \A i \in 0 .. (N - 1) : isFaulty[i] => initialValue[i] = 0
    /\ ready = FALSE
    /\ nodeState = [i \in 0 .. (N - 1) |->
                      [killed  |-> FALSE,
                       x       |-> IF isFaulty[i] THEN Null ELSE Some(initialValue[i]),
                       decided |-> IF isFaulty[i] THEN Null ELSE Some(FALSE),
                       k       |-> IF isFaulty[i] THEN Null ELSE Some(1)]]
    /\ messageLog = [i \in 0 .. (N - 1) |-> [proposals |-> <<>>, votes |-> <<>>]]
    /\ tasks = [i \in 0 .. (N - 1) |-> EmptyBag]
    /\ starts = [i \in 0 .. (N - 1) |-> 0]

\* ---------------------------------------------------------------- actions
\* setNodeIsReady has been called by every node: nodesAreReady() turns true.
NodesReady ==
    /\ ~ready
    /\ ready' = TRUE
    /\ UNCHANGED <<N, isFaulty, initialValue, nodeState, messageLog, tasks, starts>>

\* GET /start
Start(i) ==
    IF isFaulty[i] \/ nodeState[i].killed \/ nodeState[i].decided = Some(TRUE)
    THEN UNCHANGED vars
    ELSE /\ TotalStarts < MaxStarts
         /\ starts' = [starts EXCEPT ![i] = @ + 1]
         /\ tasks' = [tasks EXCEPT ![i] = @ (+) SetToBag({Scheduled})]
         /\ UNCHANGED <<N, isFaulty, initialValue, ready, nodeState, messageLog>>

\* a stop that flips killed instead of setting it
StopToggles(i) ==
    /\ nodeState' = [nodeState EXCEPT ![i].killed = ~@]
    /\ UNCHANGED <<N, isFaulty, initialValue, ready, messageLog, tasks, starts>>

\* GET /stop
Stop(i) ==
    /\ nodeState' = [nodeState EXCEPT ![i].killed = TRUE]
    /\ UNCHANGED <<N, isFaulty, initialValue, ready, messageLog, tasks, starts>>

\* runConsensusProtocol without its N === 1 return
BeginWithoutSingleNodeCase(i, r) ==
    /\ r.pc = "scheduled"
    /\ IF nodeState[i].killed \/ isFaulty[i] \/ nodeState[i].decided = Some(TRUE)
       THEN /\ tasks' = Remove(i, r)
            /\ UNCHANGED <<nodeState, messageLog>>
       ELSE LET currentRound == Get(nodeState[i].k)
                proposedValue == IF nodeState[i].x # Null THEN Get(nodeState[i].x)
                                 ELSE currentRound % 2
                b == broadcastMessage(i, "proposal")
            IN  /\ currentRound <= MaxRound
                /\ messageLog' = [messageLog EXCEPT
                                    ![i] = initializeRoundTracking(@, currentRound)]
                /\ tasks' = Replace(i, r, [pc |-> b.pc, currentRound |-> currentRound,
                                           value |-> proposedValue, pend |-> b.pend])
                /\ UNCHANGED nodeState
    /\ UNCHANGED <<N, isFaulty, initialValue, ready, starts>>

\* The timer of setTimeout(runConsensusProtocol, 50) fires: the code up to the
\* first await inside broadcastMessage.
Begin(i, r) ==
    /\ r.pc = "scheduled"
    /\ IF N = 1
       THEN /\ nodeState' = [nodeState EXCEPT ![i].decided = Some(TRUE),
                                              ![i].x = Some(initialValue[i]),
                                              ![i].k = Some(1)]
            /\ tasks' = Remove(i, r)
            /\ UNCHANGED messageLog
       ELSE IF nodeState[i].killed \/ isFaulty[i] \/ nodeState[i].decided = Some(TRUE)
       THEN /\ tasks' = Remove(i, r)
            /\ UNCHANGED <<nodeState, messageLog>>
       ELSE LET currentRound == Get(nodeState[i].k)
                proposedValue == IF nodeState[i].x # Null THEN Get(nodeState[i].x)
                                 ELSE currentRound % 2
                b == broadcastMessage(i, "proposal")
            IN  /\ currentRound <= MaxRound
                /\ messageLog' = [messageLog EXCEPT
                                    ![i] = initializeRoundTracking(@, currentRound)]
                /\ tasks' = Replace(i, r, [pc |-> b.pc, currentRound |-> currentRound,
                                           value |-> proposedValue, pend |-> b.pend])
                /\ UNCHANGED nodeState
    /\ UNCHANGED <<N, isFaulty, initialValue, ready, starts>>

\* One turn of the loop of broadcastMessage that polls nodesAreReady().
GatePoll(i, r) ==
    /\ r.pc \in {"propGate", "voteGate"}
    /\ nodeState[i].killed \/ ready
    /\ tasks' = Replace(i, r, [r EXCEPT
                    !.pc = IF r.pc = "propGate" THEN "proposal" ELSE "vote",
                    !.pend = IF nodeState[i].killed THEN {} ELSE Nodes \ {i}])
    /\ UNCHANGED <<N, isFaulty, initialValue, ready, nodeState, messageLog, starts>>

\* the /message handler testing isFaulty only, not killed
DeliverUnlessFaulty(i, r, j) ==
    /\ j \in r.pend
    /\ tasks' = Replace(i, r, [r EXCEPT !.pend = @ \ {j}])
    /\ IF isFaulty[j]
       THEN UNCHANGED messageLog
       ELSE LET round == r.currentRound
                key == toString(r.value)
                log == initializeRoundTracking(messageLog[j], round)
            IN  messageLog' = [messageLog EXCEPT ![j] =
                    IF r.pc = "proposal"
                    THEN [log EXCEPT !.proposals[round][key] = @ + 1]
                    ELSE [log EXCEPT !.votes[round][key] = @ + 1]]
    /\ UNCHANGED <<N, isFaulty, initialValue, ready, nodeState, starts>>

\* POST /message at node j, for the message that invocation r of node i is
\* broadcasting; the answer resolves the fetch.  A fetch to a listening
\* server does not fail, and no server of the run is ever closed.
Deliver(i, r, j) ==
    /\ j \in r.pend
    /\ tasks' = Replace(i, r, [r EXCEPT !.pend = @ \ {j}])
    /\ IF nodeState[j].killed \/ isFaulty[j]
       THEN UNCHANGED messageLog
       ELSE LET round == r.currentRound
                key == toString(r.value)
                log == initializeRoundTracking(messageLog[j], round)
            IN  messageLog' = [messageLog EXCEPT ![j] =
                    IF r.pc = "proposal"
                    THEN [log EXCEPT !.proposals[round][key] = @ + 1]
                    ELSE [log EXCEPT !.votes[round][key] = @ + 1]]
    /\ UNCHANGED <<N, isFaulty, initialValue, ready, nodeState, starts>>

\* The proposal broadcast and the settling wait are over: tally and vote.
Tally(i, r) ==
    /\ r.pc = "proposal"
    /\ r.pend = {}
    /\ LET consensusValue == determineConsensusValue(messageLog[i], r.currentRound)
           b == broadcastMessage(i, "vote")
       IN  tasks' = Replace(i, r, [r EXCEPT !.pc = b.pc, !.value = consensusValue,
                                            !.pend = b.pend])
    /\ UNCHANGED <<N, isFaulty, initialValue, ready, nodeState, messageLog, starts>>

\* the advance step keeping the candidate value as x
FinishKeepsCandidate(i, r) ==
    /\ r.pc = "vote"
    /\ r.pend = {}
    /\ LET currentRound == r.currentRound
           consensusValue == r.value
       IN  IF checkFinalDecision(messageLog[i], currentRound)
           THEN /\ nodeState' = [nodeState EXCEPT ![i].decided = Some(TRUE),
                                                  ![i].x = Some(consensusValue)]
                /\ tasks' = Remove(i, r)
           ELSE IF nodeState[i].decided # Some(TRUE)
           THEN /\ nodeState' = [nodeState EXCEPT ![i].k = Some(currentRound + 1),
                                                  ![i].x = Some(consensusValue)]
                /\ tasks' = Replace(i, r, Scheduled)
           ELSE /\ tasks' = Remove(i, r)
                /\ UNCHANGED nodeState
    /\ UNCHANGED <<N, isFaulty, initialValue, ready, messageLog, starts>>

\* The vote broadcast and the settling wait are over: decide or advance.
Finish(i, r) ==
    /\ r.pc = "vote"
    /\ r.pend = {}
    /\ LET currentRound == r.currentRound
           consensusValue == r.value
       IN  IF checkFinalDecision(messageLog[i], currentRound)
           THEN /\ nodeState' = [nodeState EXCEPT ![i].decided = Some(TRUE),
                                                  ![i].x = Some(consensusValue)]
                /\ tasks' = Remove(i, r)
           ELSE IF nodeState[i].decided # Some(TRUE)
           THEN /\ nodeState' = [nodeState EXCEPT ![i].k = Some(currentRound + 1),
                                                  ![i].x = Some(currentRound % 2)]
                /\ tasks' = Replace(i, r, Scheduled)
           ELSE /\ tasks' = Remove(i, r)
                /\ UNCHANGED nodeState
    /\ UNCHANGED <<N, isFaulty, initialValue, ready, messageLog, starts>>

Next ==
    \/ NodesReady
    \/ \E i \in Nodes : Start(i)
    \/ \E i \in Nodes : Stop(i)
    \/ \E i \in Nodes : \E r \in TasksOf(i) : Begin(i, r)
    \/ \E i \in Nodes : \E r \in TasksOf(i) : GatePoll(i, r)
    \/ \E i \in Nodes : \E r \in TasksOf(i) : \E j \in Nodes : Deliver(i, r, j)
    \/ \E i \in Nodes : \E r \in TasksOf(i) : Tally(i, r)
    \/ \E i \in Nodes : \E r \in TasksOf(i) : Finish(i, r)

Spec == Init /\ [][Next]_vars

\* ------------------------------------------------------------ properties
Decided(i) == nodeState[i].decided = Some(TRUE)
Killed(i) == nodeState[i].killed
NoFaulty == \A i \in Nodes : ~isFaulty[i]
Threshold == Floor2(N)

\* the count recorded for (votes, round, value) on node i, 0 if round unseen
VoteCount(i, round, v) ==
    IF round \in DOMAIN messageLog[i].votes
    THEN messageLog[i].votes[round][toString(v)] ELSE 0
ProposalCount(i, round, v) ==
    IF round \in DOMAIN messageLog[i].proposals
    THEN messageLog[i].proposals[round][toString(v)] ELSE 0

\* C1 -- Agreement: with zero faulty nodes, any two nodes that both report
\* decided = true report the same x.
Agreement ==
    NoFaulty =>
        \A i, j \in Nodes :
            (getState(i).decided = Some(TRUE) /\ getState(j).decided = Some(TRUE))
                => getState(i).x = getState(j).x

\* C2 -- Termination, as the safety property it implies: in a run with zero
\* faulty nodes, every node started once and no node stopped, no state is
\* reached from which some node can never decide.  LeftBehind(i) is such a
\* state: every other node has decided and has no invocation pending, so it
\* sends nothing more (GET /start does nothing on a decided node); node i is
\* about to run round k, a round later than any round the others ran, and
\* checkFinalDecision needs a vote of another node for the round it checks.
LeftBehind(i) ==
    /\ N >= 2
    /\ NoFaulty
    /\ \A j \in Nodes : ~Killed(j) /\ starts[j] = 1
    /\ ~Decided(i)
    /\ tasks[i] = SetToBag({Scheduled})
    /\ \A j \in Nodes \ {i} :
          /\ Decided(j)
          /\ tasks[j] = EmptyBag
          /\ Get(nodeState[j].k) < Get(nodeState[i].k)
    /\ \A round \in DOMAIN messageLog[i].votes :
          round >= Get(nodeState[i].k) =>
              \A v \in Values : messageLog[i].votes[round][toString(v)] = 0

EveryNodeCanStillDecide == \A i \in Nodes : ~LeftBehind(i)

\* C3 -- Decided value is the vote value that met the threshold: a node that
\* finalizes at the end of round k >= 2 because value v has a vote tally
\* >= floor(N/2) for round k, the other value having fewer, fixes x to v.
DecidesThresholdValue ==
    [][\A i \in Nodes : \A r \in TasksOf(i) :
          (/\ ~Killed(i)
           /\ Finish(i, r)
           /\ checkFinalDecision(messageLog[i], r.currentRound))
              => \A v \in Values :
                    (/\ VoteCount(i, r.currentRound, v) >= Threshold
                     /\ VoteCount(i, r.currentRound, 1 - v) < VoteCount(i, r.currentRound, v))
                        => nodeState'[i].x = Some(v)]_vars

\* C4 -- Finalization precondition: for N >= 2, decided turns from false to
\* true only when an invocation ends a round >= 2 (its vote broadcast answered)
\* for which some value's recorded vote tally is >= floor(N/2), hence >= 1.
FinalizationPrecondition ==
    [][\A i \in Nodes :
          (N >= 2 /\ nodeState[i].decided = Some(FALSE)
                  /\ nodeState'[i].decided = Some(TRUE))
              => \E r \in TasksOf(i) :
                    /\ r.pc = "vote"
                    /\ r.pend = {}
                    /\ r.currentRound >= 2
                    /\ \E v \in Values :
                          /\ VoteCount(i, r.currentRound, v) >= Threshold
                          /\ VoteCount(i, r.currentRound, v) >= 1
                    /\ CopiesIn(r, tasks'[i]) = CopiesIn(r, tasks[i]) - 1]_vars

FinalizationWitness ==
    \E i \in Nodes : N >= 2 /\ Decided(i) /\ ~Killed(i)

\* C5 -- Decision stability: once a non-faulty node has decided, decided
\* stays true and x and k keep their values.
DecisionStable ==
    [][\A i \in Nodes :
          (~isFaulty[i] /\ Decided(i))
              => /\ nodeState'[i].decided = Some(TRUE)
                 /\ nodeState'[i].x = nodeState[i].x
                 /\ nodeState'[i].k = nodeState[i].k]_vars

\* C7 -- No round work after kill: once killed is true on a non-faulty node
\* (of a run of N >= 2 nodes, where getState shows these fields), its x,
\* decided and k never change again.
NoRoundWorkAfterKill ==
    [][\A i \in Nodes :
          (N >= 2 /\ ~isFaulty[i] /\ Killed(i))
              => /\ nodeState'[i].x = nodeState[i].x
                 /\ nodeState'[i].decided = nodeState[i].decided
                 /\ nodeState'[i].k = nodeState[i].k]_vars

\* the number of fetches of node i's broadcasts that are not answered yet
RECURSIVE FetchesInFlight(_, _)
FetchesInFlight(bag, S) ==
    IF S = {} THEN 0
    ELSE LET r == CHOOSE r \in S : TRUE
         IN  CopiesIn(r, bag) * Cardinality(r.pend) + FetchesInFlight(bag, S \ {r})
InFlight(bag) == FetchesInFlight(bag, BagToSet(bag))

\* C6 -- No transmission by killed or faulty nodes: no step taken while a
\* node is killed hands a message of that node to the transport, and a
\* faulty node never has a fetch under way.
NoSendAfterKill ==
    [][\A i \in Nodes :
          /\ Killed(i) => InFlight(tasks'[i]) <= InFlight(tasks[i])
          /\ isFaulty[i] => InFlight(tasks'[i]) = 0]_vars

\* Node i sent its proposal of a round to j, was stopped, and its invocation
\* went on to the vote phase: j holds the proposal and no vote of that round.
NoSendAfterKillWitness ==
    \E i \in Nodes : \E j \in Nodes \ {i} : \E r \in TasksOf(i) :
        /\ Killed(i) /\ ~Killed(j) /\ ~isFaulty[j]
        /\ r.pc = "vote" /\ r.pend = {}
        /\ \E v \in Values : ProposalCount(j, r.currentRound, v) > 0
        /\ \A v \in Values : VoteCount(j, r.currentRound, v) = 0

\* C8 -- stop() sets killed and changes nothing else, a stop() on a killed
\* node changes nothing at all, and no step sets killed back to false.
StopIdempotent ==
    [][/\ \A i \in Nodes : Killed(i) => nodeState'[i].killed
       /\ \A i \in Nodes :
             Stop(i) => /\ nodeState'[i].killed
                        /\ nodeState'[i].x = nodeState[i].x
                        /\ nodeState'[i].decided = nodeState[i].decided
                        /\ nodeState'[i].k = nodeState[i].k
                        /\ \A j \in Nodes \ {i} : nodeState'[j] = nodeState[j]
                        /\ UNCHANGED <<messageLog, tasks, ready, starts>>
                        /\ (Killed(i) => UNCHANGED vars)]_vars

StopWitness ==
    \E i \in Nodes :
        /\ Killed(i) /\ ~isFaulty[i]
        /\ tasks[i] # EmptyBag
        /\ \E v \in Values : ProposalCount(i, 1, v) > 0

\* What an observer reads as "k >= n" in a state report: null is not >= n.
ReportsRoundAtLeast(report, n) == report.k # Null /\ Get(report.k) >= n

\* C9 (as claimed) -- when F > floor((N-1)/2), every node's getState()
\* reports k >= 11 and decided = false.
ExceedingReportsAllNodes ==
    isExceedingFaultLimit =>
        \A i \in Nodes :
            /\ getState(i).decided = Some(FALSE)
            /\ ReportsRoundAtLeast(getState(i), ReportedRoundFloor)

\* C9 (amended) -- when F > floor((N-1)/2) and N >= 2, every non-faulty
\* node's getState() reports k >= 11 and decided = false.
ExceedingReportsNonFaulty ==
    (isExceedingFaultLimit /\ N >= 2) =>
        \A i \in Nodes :
            ~isFaulty[i] =>
                /\ getState(i).decided = Some(FALSE)
                /\ ReportsRoundAtLeast(getState(i), ReportedRoundFloor)

\* a non-faulty node of such a run that has run its rounds up to round 3
ExceedingWitness ==
    \E i \in Nodes :
        /\ isExceedingFaultLimit /\ N >= 2 /\ ~isFaulty[i]
        /\ nodeState[i].k = Some(MaxRound + 1)

\* C10 -- Single-node case: for N = 1 the non-faulty node always reports
\* decided = true, x = initialValue, k = 1; no invocation ever gets past the
\* N = 1 return (no round runs), nothing is sent and nothing is tallied.
SingleNode ==
    (N = 1 /\ ~isFaulty[0]) =>
        /\ getState(0) = [killed |-> nodeState[0].killed, x |-> Some(initialValue[0]),
                          decided |-> Some(TRUE), k |-> Some(1)]
        /\ \A r \in TasksOf(0) : r.pc = "scheduled"
        /\ InFlight(tasks[0]) = 0
        /\ messageLog[0] = [proposals |-> <<>>, votes |-> <<>>]

SingleNodeWitness ==
    /\ N = 1 /\ ~isFaulty[0]
    /\ starts[0] >= 2
    /\ Killed(0)
    /\ nodeState[0].decided = Some(TRUE)

\* the count a log holds for (kind, round, bucket), 0 if the round is unseen
Kinds == {"proposal", "vote"}
Buckets == {"0", "1", "?"}
Rounds == 1 .. (MaxRound + 1)
CountIn(log, kind, round, key) ==
    LET m == IF kind = "proposal" THEN log.proposals ELSE log.votes
    IN  IF round \in DOMAIN m THEN m[round][key] ELSE 0

\* In this step the fetch of invocation r of node i to node j is answered.
Answered(i, r, j) ==
    /\ j \in r.pend
    /\ tasks' = Replace(i, r, [r EXCEPT !.pend = @ \ {j}])

\* C11 -- Tally counts deliveries exactly: a step that leaves a node's log as
\* it is delivers nothing to the node while it is neither killed nor faulty;
\* a step that changes the log removes no round's entry and lowers no count,
\* changes a count only by +1 and only for the kind, round and value of a
\* message it delivers to the node while it is neither killed nor faulty, and
\* raises by 1 the count of every message it so delivers.
TallyCountsDeliveries ==
    [][\A j \in Nodes :
          IF messageLog'[j] = messageLog[j]
          THEN (tasks' # tasks /\ ~Killed(j) /\ ~isFaulty[j])
                  => \A i \in Nodes \ {j} : \A r \in TasksOf(i) : ~Answered(i, r, j)
          ELSE /\ DOMAIN messageLog[j].proposals \subseteq DOMAIN messageLog'[j].proposals
               /\ DOMAIN messageLog[j].votes \subseteq DOMAIN messageLog'[j].votes
               /\ \A kind \in Kinds, round \in Rounds, key \in Buckets :
                     LET c  == CountIn(messageLog[j], kind, round, key)
                         c2 == CountIn(messageLog'[j], kind, round, key)
                     IN  /\ c2 >= c
                         /\ c2 # c =>
                               /\ c2 = c + 1
                               /\ ~Killed(j) /\ ~isFaulty[j]
                               /\ \E i \in Nodes \ {j} : \E r \in TasksOf(i) :
                                     /\ Answered(i, r, j)
                                     /\ r.pc = kind /\ r.currentRound = round
                                     /\ toString(r.value) = key
               /\ \A i \in Nodes \ {j} : \A r \in TasksOf(i) :
                     (Answered(i, r, j) /\ ~Killed(j) /\ ~isFaulty[j])
                         => CountIn(messageLog'[j], r.pc, r.currentRound, toString(r.value))
                              = CountIn(messageLog[j], r.pc, r.currentRound,
                                        toString(r.value)) + 1]_vars

\* a node holds two deliveries of the same kind, round and value
TallyWitness ==
    \E j \in Nodes : \E kind \in Kinds, round \in Rounds, key \in Buckets :
        CountIn(messageLog[j], kind, round, key) >= 2

\* C12 -- Deliveries to killed or faulty nodes are discarded: a step that
\* answers a message sent to a node that is killed or faulty changes none of
\* that node's tallies, round entries, x, decided and k.
DiscardedWhenKilledOrFaulty ==
    [][\A j \in Nodes : \A i \in Nodes \ {j} : \A r \in TasksOf(i) :
          (Answered(i, r, j) /\ (Killed(j) \/ isFaulty[j]))
              => /\ messageLog'[j] = messageLog[j]
                 /\ nodeState'[j] = nodeState[j]]_vars

\* Node i, never stopped, sent the proposal of a round and every fetch was
\* answered, yet the killed node j holds no proposal of that round.
DiscardedWitness ==
    \E i \in Nodes : \E j \in Nodes \ {i} : \E r \in TasksOf(i) :
        /\ ready /\ ~Killed(i) /\ ~isFaulty[i]
        /\ Killed(j) /\ ~isFaulty[j]
        /\ r.pc = "proposal" /\ r.pend = {}
        /\ \A v \in Values : ProposalCount(j, r.currentRound, v) = 0

\* C13 -- Readiness gate: while nodesAreReady() is false no fetch is under
\* way and nothing has been tallied anywhere; a step hands messages to the
\* transport only when the gate is open and the sender is not killed; an
\* invocation waiting on the gate holds no fetch, stays waiting while the
\* gate is closed and the node is not killed, and when the node is killed
\* leaves the gate without sending.
Gates == {"propGate", "voteGate"}
ReadinessGate ==
    /\ [](~ready =>
            \A i \in Nodes :
                /\ InFlight(tasks[i]) = 0
                /\ \A kind \in Kinds, round \in Rounds, key \in Buckets :
                      CountIn(messageLog[i], kind, round, key) = 0)
    /\ [][\A i \in Nodes :
            /\ InFlight(tasks'[i]) > InFlight(tasks[i]) => (ready /\ ~Killed(i))
            /\ \A r \in TasksOf(i) :
                  r.pc \in Gates =>
                      /\ r.pend = {}
                      /\ (~ready /\ ~Killed(i))
                            => CopiesIn(r, tasks'[i]) >= CopiesIn(r, tasks[i])
                      /\ (Killed(i) /\ CopiesIn(r, tasks'[i]) < CopiesIn(r, tasks[i]))
                            => /\ InFlight(tasks'[i]) = InFlight(tasks[i])
                               /\ messageLog' = messageLog]_vars

\* a node stopped while its proposal waited on the closed gate: the
\* invocation has left the gate and nothing was sent
ReadinessGateWitness ==
    \E i \in Nodes : \E r \in TasksOf(i) :
        /\ ~ready /\ Killed(i)
        /\ r.pc = "proposal" /\ r.pend = {}
        /\ \A j \in Nodes : messageLog[j].proposals = <<>> \/ i = j

\* C14 -- start() is a no-op on decided, faulty or killed nodes: a call on
\* such a node schedules nothing and changes nothing; and when stop() comes
\* after start() but before the scheduled round begins, the invocation
\* returns without changing x, decided, k, killed or a tally and without
\* sending.
StartIsNoOp ==
    [][\A i \in Nodes :
          /\ (isFaulty[i] \/ Killed(i) \/ Decided(i))
                => (starts'[i] = starts[i] /\ (Start(i) => UNCHANGED vars))
          /\ \A r \in TasksOf(i) :
                (/\ r.pc = "scheduled"
                 /\ Killed(i)
                 /\ CopiesIn(r, tasks'[i]) < CopiesIn(r, tasks[i]))
                    => /\ nodeState'[i] = nodeState[i]
                       /\ messageLog' = messageLog
                       /\ tasks' = Remove(i, r)]_vars

\* C15 -- Faulty node state report: a faulty node's getState() always gives
\* x = null, decided = null, k = null, and killed = the node's killed flag,
\* which is false at first and turns true in a stop() step and in no other.
FaultyReport ==
    /\ \A i \in Nodes : isFaulty[i] => ~getState(i).killed
    /\ [](\A i \in Nodes :
            isFaulty[i] =>
                /\ getState(i).x = Null
                /\ getState(i).decided = Null
                /\ getState(i).k = Null
                /\ getState(i).killed = nodeState[i].killed)
    /\ [][\A i \in Nodes :
            isFaulty[i] =>
                /\ Stop(i) => getState(i)'.killed
                /\ getState(i)'.killed # getState(i).killed
                      => (Stop(i) /\ getState(i)'.killed)]_vars

\* a stopped faulty node to which a started peer has sent a proposal and a vote
FaultyReportWitness ==
    \E i \in Nodes : \E j \in Nodes \ {i} : \E r \in TasksOf(j) :
        /\ isFaulty[i] /\ Killed(i)
        /\ ready /\ ~Killed(j) /\ ~isFaulty[j]
        /\ r.pc = "vote" /\ r.pend = {}

\* C16 -- Round number progression: a non-faulty node's k starts at 1 and
\* every change of k is an increase by exactly 1.
RoundProgression ==
    /\ \A i \in Nodes : ~isFaulty[i] => nodeState[i].k = Some(1)
    /\ [][\A i \in Nodes :
            (~isFaulty[i] /\ ~Killed(i) /\ nodeState'[i].k # nodeState[i].k)
                => Get(nodeState'[i].k) = Get(nodeState[i].k) + 1]_vars

\* the candidate value the proposal counts of a round call for
Candidate(i, round) ==
    IF ProposalCount(i, round, 0) > ProposalCount(i, round, 1) THEN 0
    ELSE IF ProposalCount(i, round, 1) > ProposalCount(i, round, 0) THEN 1
    ELSE round % 2

\* C17 -- Candidate value rule: when an invocation tallies the proposals of
\* its round (its proposal broadcast answered), the value of the vote it goes
\* on to broadcast is the value with the strictly higher proposal count for
\* that round at that moment, and the round number mod 2 on a tie.
CandidateRule ==
    [][\A i \in Nodes : \A r \in TasksOf(i) :
          (/\ r.pc = "proposal" /\ r.pend = {}
           /\ CopiesIn(r, tasks'[i]) < CopiesIn(r, tasks[i]))
              => \E r2 \in BagToSet(tasks'[i]) :
                    /\ r2.pc \in {"vote", "voteGate"}
                    /\ r2.currentRound = r.currentRound
                    /\ r2.value = Candidate(i, r.currentRound)
                    /\ tasks' = Replace(i, r, r2)]_vars

\* a vote whose value is not the tie fallback: a strict majority chose it
CandidateWitness ==
    \E i \in Nodes : \E r \in TasksOf(i) :
        /\ ~Killed(i)
        /\ r.pc = "vote" /\ r.pend # {}
        /\ r.value # r.currentRound % 2

\* C18 -- Advance step: an invocation of a node that is neither killed nor
\* decided, ending round k without the finalization condition, sets k to
\* k + 1 and x to k mod 2 and schedules the next round; and every proposal of
\* a round k + 1 >= 2 carries k mod 2.
AdvanceStep ==
    /\ [](\A i \in Nodes : \A r \in TasksOf(i) :
            (r.pc \in {"propGate", "proposal"} /\ r.currentRound >= 2)
                => r.value = (r.currentRound - 1) % 2)
    /\ [][\A i \in Nodes : \A r \in TasksOf(i) :
            (/\ r.pc = "vote" /\ r.pend = {}
             /\ CopiesIn(r, tasks'[i]) < CopiesIn(r, tasks[i])
             /\ ~Killed(i) /\ ~Decided(i)
             /\ \/ r.currentRound < 2
                \/ \A v \in Values : VoteCount(i, r.currentRound, v) < Threshold)
                => /\ nodeState'[i].k = Some(r.currentRound + 1)
                   /\ nodeState'[i].x = Some(r.currentRound % 2)
                   /\ nodeState'[i].decided = Some(FALSE)
                   /\ tasks' = Replace(i, r, Scheduled)]_vars

\* N = 2: node i voted 0 in round 1 (its peer holds that vote) and proposes
\* 1 = 1 mod 2 in round 2
AdvanceWitness ==
    \E i \in Nodes : \E j \in Nodes \ {i} : \E r \in TasksOf(i) :
        /\ N = 2 /\ ~Killed(i) /\ starts[i] = 1
        /\ VoteCount(j, 1, 0) >= 1
        /\ r.pc = "proposal" /\ r.currentRound = 2 /\ r.value = 1

\* C19 -- At most one message per kind per round per sender: on every node
\* the proposal counts of a round, and its vote counts, sum to at most N - 1.
OneMessagePerRound ==
    \A j \in Nodes : \A round \in Rounds :
        /\ ProposalCount(j, round, 0) + ProposalCount(j, round, 1) <= N - 1
        /\ VoteCount(j, round, 0) + VoteCount(j, round, 1) <= N - 1

\* C20 -- Validity: for N >= 2 with zero faulty nodes, if every node starts
\* with the same initial value v, no node decides a value other than v (shown
\* already for runs where every node is started once and none is stopped).
Validity ==
    (/\ N >= 2 /\ NoFaulty
     /\ \A i \in Nodes : ~Killed(i) /\ starts[i] <= 1) =>
        \A v \in Values :
            (\A i \in Nodes : initialValue[i] = v)
                => \A i \in Nodes : Decided(i) => nodeState[i].x = Some(v)

====
